---- MODULE Spec2Model ----
(***************************************************************************)
(* Model of src/main.cpp: the small-object handle Small<T>.                *)
(*                                                                         *)
(*   - inlined_object_v<T> (the trait classifier) as a pure operator over  *)
(*     a description of the payload type;                                  *)
(*   - the pooled SmallImpl<T> (constructor, copy constructor, destructor, *)
(*     data()) over ParallelPool<T> (a mutex around boost::object_pool)    *)
(*     obtained through the thread_local shared_ptr of getPool<T>();       *)
(*   - the inline SmallImpl<T> with a std::shared_ptr payload;             *)
(*   - on their own specifications: allocation failure, a payload          *)
(*     constructor that throws, payload code that re-enters its pool, the  *)
(*     implicitly generated copy assignment, and a fair mutex.             *)
(*                                                                         *)
(* Every atomic operation of the code (an atomic ++/-- on uses, a          *)
(* shared_ptr reference count change, a mutex acquisition) is one step of  *)
(* one thread; the steps of different threads interleave freely.           *)
(***************************************************************************)
EXTENDS Integers, FiniteSets, Bags, TLC

\* ---------------------------------------------------------------- bounds
NumThreads == 2
MaxHandles == 2
MaxTypeSize == 66
MaxInline == 3

\* ------------------------------------------------------ program constants
MAX_SMALL_SIZE == 64

Threads == 1..NumThreads
\* the addresses std::make_shared<ParallelPool<T>>() may return
PoolAddrs == 1..NumThreads
\* the chunks of one block of a pool: as many as there can be handles, so that a
\* pool never needs a second block
Slots == 1..MaxHandles
\* the address of a cell: (the pool whose block holds it, its slot there)
Cells == PoolAddrs \X Slots
NULL == <<0, 0>>
NoPool == 0
NoThread == 0
Payloads == {"s1", "s2"}
NoData == "none"

\* A pooled handle is its two members. Handles with equal members are
\* interchangeable, so the live handles are kept as a multiset.
HandleValues == [owner_ : PoolAddrs, counter_ : Cells \cup {NULL}]
NoHandle == [owner_ |-> NoPool, counter_ |-> NULL]
\* no pool call of the thread is suspended in a payload constructor or destructor
NoFrame == [pc |-> "none", cur |-> NoHandle, arg |-> NoData]
\* the objects an inline payload std::shared_ptr<X> may point to
Objs == 1..MaxInline

VARIABLES
    pc,         \* pc[t]: where thread t is
    cur,        \* cur[t]: the handle (*this) thread t is constructing or destroying
    src,        \* src[t]: the handle (item) thread t is copying from
    arg,        \* arg[t]: the constructor argument of the handle t is constructing
    tlPool,     \* tlPool[t]: t's thread_local std::shared_ptr<ParallelPool<T>> pool
    poolRefs,   \* poolRefs[p]: use count of the shared_ptr control block of pool p
    mutex,      \* mutex[p]: the thread holding ParallelPool::mutex of p, or NoThread
    blocks,     \* blocks[p]: the chunks of the block pool p got from the backing allocator
    freeL,      \* freeL[p]: the free list of pool p, a set of cell addresses
    mem,        \* mem[c]: the AtomicCounter<T> at address c
    live,       \* the bag of live handles: live[h] of them have the members h
    ty,         \* the payload type T under classification
    flag,       \* Small<T>::inlined for ty
    outer,      \* outer[t]: the pool call of t whose payload constructor or
                \* destructor started the operation t is in now, or NoFrame
    inl,        \* the bag of live inline handles: inl[k] of them hold data_ = k
    got,        \* the bag of payload values data() returned that callers still hold
    useCount    \* useCount[k]: the use count of the payload (a shared_ptr) k

vars == <<pc, cur, src, arg, tlPool, poolRefs, mutex, blocks, freeL, mem, live,
          ty, flag, outer, inl, got, useCount>>

poolVars == <<poolRefs, blocks, freeL, mem>>
traitVars == <<ty, flag>>
frameVars == <<outer>>
inlineVars == <<inl, got, useCount>>

\* ------------------------------------------------------- trait classifier
\* A payload type, as far as the classifier inspects it. std::shared_ptr is
\* never trivially copyable, so no type is both.
Types ==
    { x \in [shared : BOOLEAN, triv : BOOLEAN, size : 1..MaxTypeSize] :
        ~(x.shared /\ x.triv) }

\* std::string on a 64-bit build: the payload of the handles of main()
StringType == [shared |-> FALSE, triv |-> FALSE, size |-> 32]

\* sizeof(T) < MAX_SMALL_SIZE in the place of <=
SmallEnoughStrict(T) == T.triv /\ T.size < MAX_SMALL_SIZE
\* the enable_if condition of the first partial specialization
SmallEnough(T) == T.triv /\ T.size <= MAX_SMALL_SIZE

\* the partial specializations of inlined_object that match T
Matching(T) ==
    (IF SmallEnough(T) THEN {"trivially_copyable_small"} ELSE {})
    \cup (IF T.shared THEN {"shared_ptr"} ELSE {})

\* inlined_object<T>::value: the primary template is false_type, both partial
\* specializations are true_type
inlined_object_v(T) == Matching(T) # {}

\* which SmallImpl<T, void> is instantiated, and its static member inlined
SmallImplVariant(T) == IF inlined_object_v(T) THEN "inline" ELSE "pooled"
inlined(T) == SmallImplVariant(T) = "inline"

\* ----------------------------------------------------------------- cells
BlankCell == [data |-> NoData, uses |-> 0, maker |-> NoThread]

\* the constructor leaves uses value-initialised
AtomicCounterUncounted(a, t) == [data |-> a, uses |-> 0, maker |-> t]
\* AtomicCounter(Args... args) : data(std::move(args)...), uses(1)
InitialUses == 1
AtomicCounter(a, t) == [data |-> a, uses |-> InitialUses, maker |-> t]

\* the cells of pool p that are constructed and not released
LiveCells(p) == { c \in Cells : c[1] = p /\ c[2] \in blocks[p] /\ c \notin freeL[p] }

Min(S) == CHOOSE x \in S : \A y \in S : x <= y
\* the pool hands out its first chunk whether it is free or not
FirstChunk(p) == <<p, 1>>
\* the head of the address-ordered free list
FirstFree(p) ==
    LET pm == Min({ c[1] : c \in freeL[p] })
    IN  <<pm, Min({ c[2] : c \in { d \in freeL[p] : d[1] = pm } })>>

\* ------------------------------------------------------------------ init
\* no pool call is suspended, no inline handle exists
InitRest ==
    /\ outer = [t \in Threads |-> NoFrame]
    /\ inl = EmptyBag
    /\ got = EmptyBag
    /\ useCount = [k \in Objs |-> 0]

Init ==
    /\ pc = [t \in Threads |-> "idle"]
    /\ cur = [t \in Threads |-> NoHandle]
    /\ src = [t \in Threads |-> NoHandle]
    /\ arg = [t \in Threads |-> NoData]
    /\ tlPool = [t \in Threads |-> NoPool]
    /\ poolRefs = [p \in PoolAddrs |-> 0]
    /\ mutex = [p \in PoolAddrs |-> NoThread]
    /\ blocks = [p \in PoolAddrs |-> {}]
    /\ freeL = [p \in PoolAddrs |-> {}]
    /\ mem = [c \in Cells |-> BlankCell]
    /\ live = EmptyBag
    /\ ty = StringType
    /\ flag = inlined(ty)
    /\ InitRest

\* a null pointer was dereferenced: the process is gone
Crashed == \E t \in Threads : pc[t] = "crashed"
\* thread t is between two operations and the facade resolved to the pooled variant
Ready(t) == pc[t] = "idle" /\ ~Crashed /\ ~flag
Step(t, at) == pc[t] = at /\ ~Crashed

\* the handles that exist: the live ones, and those a constructor or
\* destructor is running on
LiveHandles == BagToSet(live)
InFlight == { t \in Threads : cur[t] # NoHandle }
Suspended == { t \in Threads : outer[t] # NoFrame }
NumHandles == BagCardinality(live) + Cardinality(InFlight) + Cardinality(Suspended)
HasRoom == NumHandles < MaxHandles

\* an item some thread is in the middle of copying from: whoever owns it keeps
\* it alive until the copy constructor returns
Pinned(h) == \E t \in Threads : pc[t] = "copy_inc" /\ src[t] = h
\* a live handle with the members h may be destroyed now
Destructible(h) == CopiesIn(h, live) > (IF Pinned(h) THEN 1 ELSE 0)

\* ------------------------------------------------------------ getPool<T>()
\* pool declared without thread_local storage: every call makes a pool
GetPoolNeverCached(t) == FALSE
\* the thread_local pool of t is already initialised
GetPoolCached(t) == tlPool[t] # NoPool

\* std::make_shared<ParallelPool<T>>(): the allocator places the new pool at
\* the first address no living pool occupies
make_shared == Min({ q \in PoolAddrs : poolRefs[q] = 0 })

\* getPool<T>() called on thread t returns (a counted copy of) p: the first call
\* on a thread initialises the thread_local with a new pool
getPool(t, p) ==
    IF GetPoolCached(t)
    THEN /\ p = tlPool[t]
         /\ poolRefs' = [poolRefs EXCEPT ![p] = @ + 1]
         /\ UNCHANGED tlPool
    ELSE /\ \E q \in PoolAddrs : poolRefs[q] = 0
         /\ p = make_shared
         /\ poolRefs' = [poolRefs EXCEPT ![p] = 2]
         /\ tlPool' = [tlPool EXCEPT ![t] = p]

\* ~shared_ptr<ParallelPool<T>>(): the last reference destroys the pool, whose
\* object_pool destroys the cells still constructed and returns its blocks
releaseRef(p) ==
    IF poolRefs[p] = 1
    THEN /\ poolRefs' = [poolRefs EXCEPT ![p] = 0]
         /\ blocks' = [blocks EXCEPT ![p] = {}]
         /\ freeL' = [freeL EXCEPT ![p] = {}]
         /\ mem' = [c \in Cells |-> IF c[1] = p THEN BlankCell ELSE mem[c]]
    ELSE /\ poolRefs' = [poolRefs EXCEPT ![p] = @ - 1]
         /\ UNCHANGED <<blocks, freeL, mem>>

\* ------------------------------------------------------------ ParallelPool
\* the lock_guard left out
CanLockAlways(p) == TRUE
\* the mutex is not released when the call returns
unlockNever(p) == UNCHANGED mutex
\* std::lock_guard l(mutex): blocks until the mutex of this pool is free
CanLock(p) == mutex[p] = NoThread
lock(t, p) == CanLock(p) /\ mutex' = [mutex EXCEPT ![p] = t]
unlock(p) == mutex' = [mutex EXCEPT ![p] = NoThread]

\* pool p has not asked the backing allocator for its block yet
CanSupply(p) == blocks[p] = {}

\* ------------------------------------------- SmallImpl(Args... args), pooled
\* owner_(getPool<T>())
Ctor_GetPool(t) ==
    /\ Ready(t)
    /\ HasRoom
    /\ \E a \in Payloads, p \in PoolAddrs :
         /\ getPool(t, p)
         /\ cur' = [cur EXCEPT ![t] = [owner_ |-> p, counter_ |-> NULL]]
         /\ arg' = [arg EXCEPT ![t] = a]
    /\ pc' = [pc EXCEPT ![t] = "ctor_lock"]
    /\ UNCHANGED <<src, mutex, blocks, freeL, mem, live, traitVars, frameVars, inlineVars>>

\* owner_->construct(...): std::lock_guard l(mutex)
Ctor_Lock(t) ==
    /\ Step(t, "ctor_lock")
    /\ lock(t, cur[t].owner_)
    /\ pc' = [pc EXCEPT ![t] = "ctor_in"]
    /\ UNCHANGED <<cur, src, arg, tlPool, poolVars, live, traitVars, frameVars, inlineVars>>

\* construct returns c: the lock_guard releases the mutex, counter_ is
\* initialised with c and the constructor returns
Ctor_Return(t, c) ==
    /\ live' = live (+) SetToBag({[owner_ |-> cur[t].owner_, counter_ |-> c]})
    /\ unlock(cur[t].owner_)
    /\ pc' = [pc EXCEPT ![t] = "idle"]
    /\ cur' = [cur EXCEPT ![t] = NoHandle]
    /\ arg' = [arg EXCEPT ![t] = NoData]
    /\ UNCHANGED <<src, tlPool, poolRefs, traitVars, frameVars, inlineVars>>

\* pool.construct(...): the head of the free list is taken and the cell
\* constructed in it
Ctor_ConstructReuse(t) ==
    /\ Step(t, "ctor_in")
    /\ freeL[cur[t].owner_] # {}
    /\ LET p == cur[t].owner_
           c == FirstFree(p)
       IN  /\ freeL' = [freeL EXCEPT ![p] = @ \ {c}]
           /\ mem' = [mem EXCEPT ![c] = AtomicCounter(arg[t], t)]
           /\ Ctor_Return(t, c)
    /\ UNCHANGED blocks

\* pool.construct(...): the free list is empty, the backing allocator supplies
\* a block, its chunks are put on the free list and the cell is constructed in
\* the first of them
Ctor_ConstructFresh(t) ==
    /\ Step(t, "ctor_in")
    /\ freeL[cur[t].owner_] = {}
    /\ CanSupply(cur[t].owner_)
    /\ LET p == cur[t].owner_
           new == Slots \ blocks[p]
           c == <<p, Min(new)>>
       IN  /\ blocks' = [blocks EXCEPT ![p] = @ \cup new]
           /\ freeL' = [freeL EXCEPT ![p] = { <<p, s>> : s \in new } \ {c}]
           /\ mem' = [mem EXCEPT ![c] = AtomicCounter(arg[t], t)]
           /\ Ctor_Return(t, c)

\* pool.construct(...): the free list is empty and the backing allocator
\* (new (std::nothrow)) supplies nothing: object_pool::construct returns 0
Ctor_ConstructNoMemory(t) ==
    /\ Step(t, "ctor_in")
    /\ freeL[cur[t].owner_] = {}
    /\ Ctor_Return(t, NULL)
    /\ UNCHANGED <<blocks, freeL, mem>>

\* ---------------------------------------------- SmallImpl(const SmallImpl &)
\* owner_(item.owner_)
CopiedOwner(item) == item.owner_

\* owner_ kept as a plain pointer: the copy takes no counted reference
ShareOwnerUncounted(p) == poolRefs
\* the shared_ptr copy constructor: one more reference to the pool
ShareOwner(p) == [poolRefs EXCEPT ![p] = @ + 1]

Copy_Owner(t, item) ==
    /\ Ready(t)
    /\ HasRoom
    /\ BagIn(item, live)
    /\ cur' = [cur EXCEPT ![t] = [owner_ |-> CopiedOwner(item), counter_ |-> NULL]]
    /\ poolRefs' = ShareOwner(CopiedOwner(item))
    /\ src' = [src EXCEPT ![t] = item]
    /\ pc' = [pc EXCEPT ![t] = "copy_inc"]
    /\ UNCHANGED <<arg, tlPool, mutex, blocks, freeL, mem, live, traitVars, frameVars, inlineVars>>

\* the increment left out
IncUsesNone(u) == u
\* uses += 2
IncUsesTwice(u) == u + 2
\* ++item.counter_->uses
IncUses(u) == u + 1

\* counter_((++item.counter_->uses, item.counter_))
Copy_Inc(t) ==
    /\ Step(t, "copy_inc")
    /\ src[t].counter_ # NULL
    /\ mem' = [mem EXCEPT ![src[t].counter_].uses = IncUses(@)]
    /\ live' = live (+) SetToBag({[owner_ |-> cur[t].owner_, counter_ |-> src[t].counter_]})
    /\ pc' = [pc EXCEPT ![t] = "idle"]
    /\ cur' = [cur EXCEPT ![t] = NoHandle]
    /\ src' = [src EXCEPT ![t] = NoHandle]
    /\ UNCHANGED <<arg, tlPool, poolRefs, mutex, blocks, freeL, traitVars, frameVars, inlineVars>>

\* ++item.counter_->uses through a null counter_
Copy_IncNull(t) ==
    /\ Step(t, "copy_inc")
    /\ src[t].counter_ = NULL
    /\ pc' = [pc EXCEPT ![t] = "crashed"]
    /\ UNCHANGED <<cur, src, arg, tlPool, poolVars, mutex, live, traitVars, frameVars, inlineVars>>

\* -------------------------------------------------------------- ~SmallImpl()
\* --counter_->uses
DecUses(u) == u - 1
\* !counter_->uses--: the value before the decrement is tested
ObservesZeroPost(u) == u = 0
\* the test left out: every destructor destroys the cell
ObservesZeroAlways(u) == TRUE
\* !--counter_->uses, for the value uses had before the decrement
ObservesZero(u) == DecUses(u) = 0

\* if (!--counter_->uses)
Dtor_Dec(t, h) ==
    /\ Ready(t)
    /\ Destructible(h)
    /\ h.counter_ # NULL
    /\ mem' = [mem EXCEPT ![h.counter_].uses = DecUses(@)]
    /\ live' = live (-) SetToBag({h})
    /\ cur' = [cur EXCEPT ![t] = h]
    /\ pc' = [pc EXCEPT ![t] =
                IF ObservesZero(mem[h.counter_].uses) THEN "dtor_lock" ELSE "dtor_owner"]
    /\ UNCHANGED <<src, arg, tlPool, poolRefs, mutex, blocks, freeL, traitVars, frameVars, inlineVars>>

\* --counter_->uses through a null counter_
Dtor_DecNull(t, h) ==
    /\ Ready(t)
    /\ Destructible(h)
    /\ h.counter_ = NULL
    /\ live' = live (-) SetToBag({h})
    /\ cur' = [cur EXCEPT ![t] = h]
    /\ pc' = [pc EXCEPT ![t] = "crashed"]
    /\ UNCHANGED <<src, arg, tlPool, poolVars, mutex, traitVars, frameVars, inlineVars>>

\* getPool<T>()->destroy(counter_): the pool of the destructing thread
ReleasePoolLocal(t) == tlPool[t]
\* the pool the destructor hands the cell to: owner_->destroy(counter_)
ReleasePool(t) == cur[t].owner_

\* owner_->destroy(counter_): std::lock_guard l(mutex)
Dtor_Lock(t) ==
    /\ Step(t, "dtor_lock")
    /\ lock(t, ReleasePool(t))
    /\ pc' = [pc EXCEPT ![t] = "dtor_in"]
    /\ UNCHANGED <<cur, src, arg, tlPool, poolVars, live, traitVars, frameVars, inlineVars>>

\* pool.destroy(counter_): the payload is destroyed and the cell put on the free
\* list of the pool; the lock_guard releases the mutex
Dtor_Destroy(t) ==
    /\ Step(t, "dtor_in")
    /\ LET p == ReleasePool(t)
           c == cur[t].counter_
       IN  /\ mem' = [mem EXCEPT ![c] = [BlankCell EXCEPT !.uses = mem[c].uses]]
           /\ freeL' = [freeL EXCEPT ![p] = @ \cup {c}]
           /\ unlock(p)
    /\ pc' = [pc EXCEPT ![t] = "dtor_owner"]
    /\ UNCHANGED <<cur, src, arg, tlPool, poolRefs, blocks, live, traitVars, frameVars, inlineVars>>

\* the member owner_ is destroyed; the handle is gone
Dtor_Owner(t) ==
    /\ Step(t, "dtor_owner")
    /\ releaseRef(cur[t].owner_)
    /\ cur' = [cur EXCEPT ![t] = NoHandle]
    /\ pc' = [pc EXCEPT ![t] = "idle"]
    /\ UNCHANGED <<src, arg, tlPool, mutex, live, traitVars, frameVars, inlineVars>>

\* ------------------------------------------------------------------ data()
\* return counter_->data
data(h) == mem[h.counter_].data

\* ------------------------------------------------------------- thread exit
\* the thread function returns: the thread_local pool pointer is destroyed
ThreadExit(t) ==
    /\ Ready(t)
    /\ IF tlPool[t] # NoPool
       THEN releaseRef(tlPool[t])
       ELSE UNCHANGED poolVars
    /\ tlPool' = [tlPool EXCEPT ![t] = NoPool]
    /\ pc' = [pc EXCEPT ![t] = "exited"]
    /\ UNCHANGED <<cur, src, arg, mutex, live, traitVars, frameVars, inlineVars>>

\* ------------------------------------------------------------ specification
\* The backing allocator supplies the block every pool asks it for.
Next ==
    \/ \E t \in Threads : Ctor_GetPool(t)
    \/ \E t \in Threads : Ctor_Lock(t)
    \/ \E t \in Threads : Ctor_ConstructReuse(t)
    \/ \E t \in Threads : Ctor_ConstructFresh(t)
    \/ \E t \in Threads, item \in LiveHandles : Copy_Owner(t, item)
    \/ \E t \in Threads : Copy_Inc(t)
    \/ \E t \in Threads, h \in LiveHandles : Dtor_Dec(t, h)
    \/ \E t \in Threads : Dtor_Lock(t)
    \/ \E t \in Threads : Dtor_Destroy(t)
    \/ \E t \in Threads : Dtor_Owner(t)
    \/ \E t \in Threads : ThreadExit(t)

Spec == Init /\ [][Next]_vars

\* The backing allocator may fail whenever a pool asks it for a block.
NextNoMemory ==
    \/ \E t \in Threads : Ctor_GetPool(t)
    \/ \E t \in Threads : Ctor_Lock(t)
    \/ \E t \in Threads : Ctor_ConstructReuse(t)
    \/ \E t \in Threads : Ctor_ConstructFresh(t)
    \/ \E t \in Threads : Ctor_ConstructNoMemory(t)
    \/ \E t \in Threads, item \in LiveHandles : Copy_Owner(t, item)
    \/ \E t \in Threads : Copy_Inc(t)
    \/ \E t \in Threads : Copy_IncNull(t)
    \/ \E t \in Threads, h \in LiveHandles : Dtor_Dec(t, h)
    \/ \E t \in Threads, h \in LiveHandles : Dtor_DecNull(t, h)
    \/ \E t \in Threads : Dtor_Lock(t)
    \/ \E t \in Threads : Dtor_Destroy(t)
    \/ \E t \in Threads : Dtor_Owner(t)
    \/ \E t \in Threads : ThreadExit(t)

SpecNoMemory == Init /\ [][NextNoMemory]_vars

\* --------------------------------------- the classifier on its own
\* Small<T>::inlined is evaluated for a payload type
InitTraits ==
    /\ pc = [t \in Threads |-> "idle"]
    /\ cur = [t \in Threads |-> NoHandle]
    /\ src = [t \in Threads |-> NoHandle]
    /\ arg = [t \in Threads |-> NoData]
    /\ tlPool = [t \in Threads |-> NoPool]
    /\ poolRefs = [p \in PoolAddrs |-> 0]
    /\ mutex = [p \in PoolAddrs |-> NoThread]
    /\ blocks = [p \in PoolAddrs |-> {}]
    /\ freeL = [p \in PoolAddrs |-> {}]
    /\ mem = [c \in Cells |-> BlankCell]
    /\ live = EmptyBag
    /\ ty \in Types
    /\ flag = inlined(ty)
    /\ InitRest

Instantiate ==
    /\ ty' \in Types
    /\ flag' = inlined(ty')
    /\ UNCHANGED <<pc, cur, src, arg, tlPool, poolRefs, mutex, blocks, freeL, mem, live>>
    /\ UNCHANGED <<frameVars, inlineVars>>

NextTraits == Instantiate

SpecTraits == InitTraits /\ [][NextTraits]_vars

\* ------------------------------------------------- scheduling of threads
\* the steps of thread t that wait for nothing: they are enabled until t takes them
Proceed(t) ==
    \/ Ctor_ConstructReuse(t)
    \/ Ctor_ConstructFresh(t)
    \/ Copy_Inc(t)
    \/ Dtor_Destroy(t)
    \/ Dtor_Owner(t)

\* Every thread that is inside an operation keeps being scheduled, and the
\* mutex is fair: a thread that finds it free again and again gets it. Starting
\* an operation and leaving the thread are up to the program.
Fairness ==
    \A t \in Threads :
        /\ WF_vars(Proceed(t))
        /\ SF_vars(Ctor_Lock(t))
        /\ SF_vars(Dtor_Lock(t))

SpecFair == Init /\ [][Next]_vars /\ Fairness

\* ------------------------------ payloads that use their own handle type
\* A payload type T whose constructor or destructor constructs or destroys a
\* Small<T>: it runs inside construct or destroy of a pool, under the
\* lock_guard of that call (lines 29 and 42), and the handle operation it starts
\* comes to the lock_guard of the same pool. ParallelPool::mutex is a
\* std::mutex: it is not recursive, so the thread waits for itself.
InPoolCall(t) == pc[t] \in {"ctor_in", "dtor_in"} /\ ~Crashed /\ outer[t] = NoFrame
\* the call of t that is left waiting for its payload constructor or destructor
Frame(t) == [pc |-> pc[t], cur |-> cur[t], arg |-> arg[t]]

\* the payload code run by the pool call of t constructs a Small<T> on this
\* thread, whose getPool<T>() is the pool of the running call
Reenter_Construct(t) ==
    /\ InPoolCall(t)
    /\ HasRoom
    /\ tlPool[t] = cur[t].owner_
    /\ \E a \in Payloads :
         /\ getPool(t, tlPool[t])
         /\ cur' = [cur EXCEPT ![t] = [owner_ |-> tlPool[t], counter_ |-> NULL]]
         /\ arg' = [arg EXCEPT ![t] = a]
    /\ outer' = [outer EXCEPT ![t] = Frame(t)]
    /\ pc' = [pc EXCEPT ![t] = "ctor_lock"]
    /\ UNCHANGED <<src, mutex, blocks, freeL, mem, live, traitVars, inlineVars>>

\* the payload code run by the pool call of t destroys the last handle h of a
\* cell of the same pool: --counter_->uses == 0, then owner_->destroy(counter_)
Reenter_Destroy(t, h) ==
    /\ InPoolCall(t)
    /\ Destructible(h)
    /\ h.counter_ # NULL
    /\ h.owner_ = cur[t].owner_
    /\ ObservesZero(mem[h.counter_].uses)
    /\ mem' = [mem EXCEPT ![h.counter_].uses = DecUses(@)]
    /\ live' = live (-) SetToBag({h})
    /\ cur' = [cur EXCEPT ![t] = h]
    /\ outer' = [outer EXCEPT ![t] = Frame(t)]
    /\ pc' = [pc EXCEPT ![t] = "dtor_lock"]
    /\ UNCHANGED <<src, arg, tlPool, poolRefs, mutex, blocks, freeL, traitVars, inlineVars>>

NextReentrant ==
    \/ Next
    \/ \E t \in Threads : Reenter_Construct(t)
    \/ \E t \in Threads, h \in LiveHandles : Reenter_Destroy(t, h)

SpecReentrant == Init /\ [][NextReentrant]_vars

\* ------------------------------------------------- SmallImpl<T>, inline
\* The specialization for inlined_object_v<T>: the handle is its member
\* T data_. The payload here is a std::shared_ptr<X>, whose copy constructor
\* and destructor count the owners of the pointee.
SharedPtrType == [shared |-> TRUE, triv |-> FALSE, size |-> 16]

\* everything the pooled variant and the pools consist of
pooledVars ==
    <<pc, cur, src, arg, tlPool, poolRefs, mutex, blocks, freeL, mem, live, frameVars>>

InitInline ==
    /\ pc = [t \in Threads |-> "idle"]
    /\ cur = [t \in Threads |-> NoHandle]
    /\ src = [t \in Threads |-> NoHandle]
    /\ arg = [t \in Threads |-> NoData]
    /\ tlPool = [t \in Threads |-> NoPool]
    /\ poolRefs = [p \in PoolAddrs |-> 0]
    /\ mutex = [p \in PoolAddrs |-> NoThread]
    /\ blocks = [p \in PoolAddrs |-> {}]
    /\ freeL = [p \in PoolAddrs |-> {}]
    /\ mem = [c \in Cells |-> BlankCell]
    /\ live = EmptyBag
    /\ ty = SharedPtrType
    /\ flag = inlined(ty)
    /\ InitRest

\* the payload is copied bit by bit: its copy constructor does not run
CopyPayloadBitwise(u) == u
\* std::shared_ptr's copy constructor: one more owner
CopyPayload(u) == u + 1
\* std::shared_ptr's destructor: one owner less (the last one deletes the pointee)
DestroyPayload(u) == u - 1

\* explicit SmallImpl(Args... args) : data_(std::move(args)...), called with
\* std::make_shared<X>(): the new pointee k is moved into data_
Inline_Ctor(k) ==
    /\ flag
    /\ BagCardinality(inl) < MaxInline
    /\ useCount[k] = 0
    /\ inl' = inl (+) SetToBag({k})
    /\ useCount' = [useCount EXCEPT ![k] = 1]
    /\ UNCHANGED <<got, pooledVars, traitVars>>

\* the implicit copy constructor: data_(item.data_)
Inline_Copy(k) ==
    /\ flag
    /\ BagCardinality(inl) < MaxInline
    /\ BagIn(k, inl)
    /\ inl' = inl (+) SetToBag({k})
    /\ useCount' = [useCount EXCEPT ![k] = CopyPayload(@)]
    /\ UNCHANGED <<got, pooledVars, traitVars>>

\* T data() const noexcept { return data_; }: the caller gets a copy
Inline_Data(k) ==
    /\ flag
    /\ BagCardinality(got) < MaxInline
    /\ BagIn(k, inl)
    /\ got' = got (+) SetToBag({k})
    /\ useCount' = [useCount EXCEPT ![k] = CopyPayload(@)]
    /\ UNCHANGED <<inl, pooledVars, traitVars>>

\* the caller lets go of a value data() returned
Inline_Drop(k) ==
    /\ flag
    /\ BagIn(k, got)
    /\ got' = got (-) SetToBag({k})
    /\ useCount' = [useCount EXCEPT ![k] = DestroyPayload(@)]
    /\ UNCHANGED <<inl, pooledVars, traitVars>>

\* the implicit destructor: data_ is destroyed
Inline_Dtor(k) ==
    /\ flag
    /\ BagIn(k, inl)
    /\ inl' = inl (-) SetToBag({k})
    /\ useCount' = [useCount EXCEPT ![k] = DestroyPayload(@)]
    /\ UNCHANGED <<got, pooledVars, traitVars>>

NextInline ==
    \/ \E k \in Objs : Inline_Ctor(k)
    \/ \E k \in Objs : Inline_Copy(k)
    \/ \E k \in Objs : Inline_Data(k)
    \/ \E k \in Objs : Inline_Drop(k)
    \/ \E k \in Objs : Inline_Dtor(k)

SpecInline == InitInline /\ [][NextInline]_vars

\* ------------------------------------------ SmallImpl, copy assignment
\* The pooled SmallImpl declares no operator=: the compiler generates the
\* member-wise one. owner_ = item.owner_ is std::shared_ptr's assignment (the
\* pool of item gains a reference, the pool *this had loses one);
\* counter_ = item.counter_ copies the pointer, and uses is touched on neither
\* cell. One thread assigns item to its handle a; both are live. What the
\* destructors do to the miscounted cells afterwards (a use-count below 0 stands
\* for the wrapped size_t, which is not 0 either) follows the same code.
Assign(t, a, item) ==
    /\ Ready(t)
    /\ Destructible(a)
    /\ BagIn(item, live)
    /\ a # item
    /\ live' = (live (-) SetToBag({a})) (+) SetToBag({item})
    /\ IF a.owner_ = item.owner_
       THEN UNCHANGED poolVars
       ELSE IF poolRefs[a.owner_] = 1
       THEN /\ poolRefs' = [poolRefs EXCEPT ![item.owner_] = @ + 1, ![a.owner_] = 0]
            /\ blocks' = [blocks EXCEPT ![a.owner_] = {}]
            /\ freeL' = [freeL EXCEPT ![a.owner_] = {}]
            /\ mem' = [c \in Cells |-> IF c[1] = a.owner_ THEN BlankCell ELSE mem[c]]
       ELSE /\ poolRefs' = [poolRefs EXCEPT ![item.owner_] = @ + 1, ![a.owner_] = @ - 1]
            /\ UNCHANGED <<blocks, freeL, mem>>
    /\ UNCHANGED <<pc, cur, src, arg, tlPool, mutex, traitVars, frameVars, inlineVars>>

NextAssign ==
    \/ Next
    \/ \E t \in Threads, a \in LiveHandles, item \in LiveHandles : Assign(t, a, item)

SpecAssign == Init /\ [][NextAssign]_vars

\* --------------------------------------- a payload constructor that throws
\* object_pool::construct takes a chunk (asking for the block first if the pool
\* has none), runs AtomicCounter's constructor in it, and when that throws
\* (data(std::move(args)...) fails before uses is set) puts the chunk back and
\* rethrows; the exception leaves ParallelPool::construct through the
\* destructor of the lock_guard.
\* the chunk of a failed construction stays off the free list
ChunkNotReturned(fl, c) == fl
\* catch (...) { free(ret); throw; }: chunk c goes back on the free list fl
ReturnChunk(fl, c) == fl \cup {c}

Ctor_ConstructThrows(t) ==
    /\ Step(t, "ctor_in")
    /\ LET p == cur[t].owner_
           supplied == IF freeL[p] = {} THEN { <<p, sl>> : sl \in Slots } ELSE freeL[p]
           c == <<p, Min({ d[2] : d \in supplied })>>
       IN  /\ freeL[p] # {} \/ CanSupply(p)
           /\ blocks' = [blocks EXCEPT ![p] = IF freeL[p] = {} THEN Slots ELSE @]
           /\ freeL' = [freeL EXCEPT ![p] = ReturnChunk(supplied \ {c}, c)]
           /\ unlock(p)
    /\ pc' = [pc EXCEPT ![t] = "ctor_unwind"]
    /\ arg' = [arg EXCEPT ![t] = NoData]
    /\ UNCHANGED <<cur, src, tlPool, poolRefs, mem, live, traitVars, frameVars, inlineVars>>

\* the exception leaves SmallImpl's constructor: the member owner_, already
\* initialised, is destroyed; counter_ never was, and no handle exists
Ctor_Unwind(t) ==
    /\ Step(t, "ctor_unwind")
    /\ releaseRef(cur[t].owner_)
    /\ cur' = [cur EXCEPT ![t] = NoHandle]
    /\ pc' = [pc EXCEPT ![t] = "idle"]
    /\ UNCHANGED <<src, arg, tlPool, mutex, live, traitVars, frameVars, inlineVars>>

NextThrow ==
    \/ Next
    \/ \E t \in Threads : Ctor_ConstructThrows(t)
    \/ \E t \in Threads : Ctor_Unwind(t)

SpecThrow == Init /\ [][NextThrow]_vars

\* ================================================================= claims
\* every handle that exists: the live ones and those in a constructor or destructor
AllHandles == LiveHandles \cup { cur[t] : t \in InFlight }
\* the cell at c is constructed and not released
Constructed(c) == c[2] \in blocks[c[1]] /\ c \notin freeL[c[1]]
\* the threads whose destructor saw zero and is on its way through destroy for c
Releasers(c) ==
    { t \in Threads : pc[t] \in {"dtor_lock", "dtor_in"} /\ cur[t].counter_ = c }
\* the threads inside a free-list operation of pool p
InsidePool(p) ==
    { t \in Threads : \/ pc[t] = "ctor_in" /\ cur[t].owner_ = p
                      \/ pc[t] = "dtor_in" /\ ReleasePool(t) = p }

ExactlyOneReleaser ==
    /\ \A t \in Threads :
          pc[t] \in {"dtor_lock", "dtor_in"} =>
              /\ Releasers(cur[t].counter_) = {t}
              /\ mem[cur[t].counter_].uses = 0
              /\ Constructed(cur[t].counter_)
              /\ \A h \in LiveHandles : h.counter_ # cur[t].counter_
    /\ \A c \in Cells :
          Constructed(c) =>
              \/ \E h \in LiveHandles : h.counter_ = c
              \/ Releasers(c) # {}

\* C2 witness: two handles sharing a cell are being destroyed at the same
\* time by different threads; one saw zero, the other did not.
ConcurrentDestructors ==
    \E t, u \in Threads :
        /\ t # u
        /\ pc[t] \in {"dtor_lock", "dtor_in"}
        /\ pc[u] = "dtor_owner"
        /\ cur[u].counter_ = cur[t].counter_

\* C3: the pool recorded in a handle is the pool of the thread that constructed
\* the cell, every copy records the same pool, and the last destructor, on
\* whichever thread, releases the cell to the recorded pool and not to the pool
\* of its own thread; the free list of a pool holds only released cells of
\* that pool.
RecordedOwnerIsAllocatingPool ==
    /\ \A h \in AllHandles :
          h.counter_ # NULL => h.owner_ = h.counter_[1]
    /\ \A h \in LiveHandles :
          h.counter_ # NULL =>
              LET m == mem[h.counter_].maker
              IN  m \in Threads /\ (pc[m] # "exited" => tlPool[m] = h.owner_)
    /\ \A t \in Threads :
          pc[t] \in {"dtor_lock", "dtor_in"} =>
              ReleasePool(t) = cur[t].owner_ /\ ReleasePool(t) = cur[t].counter_[1]
    /\ \A p \in PoolAddrs :
          /\ \A c \in freeL[p] : c[1] = p /\ c[2] \in blocks[p]
          /\ \A h \in LiveHandles : h.counter_ \notin freeL[p]

\* C3 witness: the last handle of a cell was destroyed on a thread that has a
\* pool of its own, and the cell is on the free list of the pool that
\* allocated it.
ReleasedAcrossThreads ==
    \E t \in Threads :
        /\ pc[t] = "dtor_owner"
        /\ tlPool[t] # NoPool
        /\ tlPool[t] # cur[t].owner_
        /\ cur[t].counter_ \in freeL[cur[t].owner_]

\* C4: a pool is not destroyed while a handle refers to it, on any thread or
\* inside a destructor still at work: the pool of every handle that exists is
\* alive, also after the thread that created the pool has exited, and the
\* storage of the cell of every live handle is still a block of that pool.
PoolOutlivesHandles ==
    /\ \A h \in AllHandles : poolRefs[h.owner_] >= 1
    /\ \A h \in LiveHandles :
          h.counter_ # NULL => h.counter_[2] \in blocks[h.counter_[1]]
    /\ \A t \in Threads :
          pc[t] \in {"dtor_lock", "dtor_in"} =>
              cur[t].counter_[2] \in blocks[cur[t].counter_[1]]

\* C4 witness: a thread is inside destroy on a pool whose creating thread has
\* already exited.
DestroyAfterCreatorExit ==
    \E t \in Threads :
        /\ pc[t] = "dtor_in"
        /\ mem[cur[t].counter_].maker \in Threads
        /\ pc[mem[cur[t].counter_].maker] = "exited"

\* C5: at most one thread at a time is inside a free-list operation of a pool,
\* the mutex of a pool is held exactly by the thread inside an operation of
\* that pool, so an operation on one pool never keeps a thread from the lock of
\* another pool.
PoolOperationsSerialized ==
    \A p \in PoolAddrs :
        /\ Cardinality(InsidePool(p)) <= 1
        /\ mutex[p] # NoThread => InsidePool(p) = {mutex[p]}
        /\ InsidePool(p) # {} => mutex[p] \in InsidePool(p)

\* C5 witness: the owning thread waits for the lock of its pool to allocate
\* while another thread is inside destroy on the same pool.
AllocateWaitsForRelease ==
    \E t, u \in Threads :
        /\ t # u
        /\ pc[t] = "ctor_lock"
        /\ pc[u] = "dtor_in"
        /\ cur[t].owner_ = ReleasePool(u)

\* the handle a step adds to the live handles
Added(h) == CopiesIn(h, live') > CopiesIn(h, live)

\* C6 (state part): two threads that are alive at the same time never have the
\* same pool instance.
PoolsDistinctPerThread ==
    \A t, u \in Threads :
        (t # u /\ tlPool[t] # NoPool /\ tlPool[u] # NoPool) => tlPool[t] # tlPool[u]

\* C6 (step part): once a thread has its pool, every later getPool call on the
\* thread returns that same instance until the thread exits; the first call
\* creates it.
GetPoolStep ==
    \A t \in Threads :
        /\ (tlPool[t] # NoPool /\ pc'[t] # "exited") => tlPool'[t] = tlPool[t]
        /\ (pc[t] = "idle" /\ pc'[t] = "ctor_lock") =>
              /\ tlPool'[t] # NoPool
              /\ cur'[t].owner_ = tlPool'[t]

\* C6: for a fixed payload type every getPool call on a thread returns the same
\* pool instance for the lifetime of the thread, created by the first call, and
\* two threads alive at the same time never obtain the same instance.
GetPoolSameInstancePerThread == []PoolsDistinctPerThread /\ [][GetPoolStep]_vars

\* C6 witness: both threads have their pool, and one of them is in a second
\* getPool call while a handle of its first call is still live.
SecondGetPoolCall ==
    \E t, u \in Threads :
        /\ t # u
        /\ tlPool[t] # NoPool
        /\ tlPool[u] # NoPool
        /\ pc[t] = "ctor_lock"
        /\ \E h \in LiveHandles : h.owner_ = tlPool[t]

\* C7: the inlined flag of the facade is true exactly for a shared_ptr of any
\* size and for a trivially copyable type of at most 64 bytes, false for every
\* other type, and every type resolves to exactly one of the two variants.
InlinedExactlyWhenEligible ==
    /\ flag = (ty.shared \/ (ty.triv /\ ty.size <= 64))
    /\ (ty.triv /\ ty.size >= 65) => ~flag
    /\ (~ty.triv /\ ~ty.shared) => ~flag
    /\ SmallImplVariant(ty) \in {"inline", "pooled"}
    /\ flag = (SmallImplVariant(ty) = "inline")
    /\ Cardinality(Matching(ty)) <= 1

\* C7 witness: a trivially copyable type of exactly 64 bytes is inlined.
TrivialAtThresholdInlined ==
    ty.triv /\ ty.size = 64 /\ flag

\* C8: the copy constructor allocates no cell and copies no payload: its first
\* step leaves every cell and every pool's slots alone, and its second step
\* yields a handle with the members of the source (the same cell, so the same
\* payload object), raises the use-count of that cell by exactly one and changes
\* nothing else of any cell, free list, block or mutex.
CopyStep ==
    \A t \in Threads :
        /\ (pc[t] = "idle" /\ pc'[t] = "copy_inc") =>
              /\ mem' = mem
              /\ blocks' = blocks
              /\ freeL' = freeL
              /\ mutex' = mutex
              /\ live' = live
        /\ (pc[t] = "copy_inc" /\ pc'[t] = "idle") =>
              /\ live' = live (+) SetToBag({src[t]})
              /\ mem'[src[t].counter_].uses = mem[src[t].counter_].uses + 1
              /\ mem'[src[t].counter_].data = mem[src[t].counter_].data
              /\ \A c \in Cells \ {src[t].counter_} : mem'[c] = mem[c]
              /\ blocks' = blocks
              /\ freeL' = freeL
              /\ mutex' = mutex
              /\ poolRefs' = poolRefs
CopySharesCell == [][CopyStep]_vars

\* C8 witness: a copy has been made: two live handles have the same members and
\* their cell has use-count 2.
TwoHandlesOneCell ==
    \E h \in LiveHandles :
        /\ CopiesIn(h, live) = 2
        /\ mem[h.counter_].uses = 2
        /\ \A t \in Threads : pc[t] = "idle"

\* C9 (state part): the cell of a live handle is constructed, holds a payload
\* and is not on a free list.
LiveHandleHasPayload ==
    \A h \in LiveHandles :
        h.counter_ # NULL => Constructed(h.counter_) /\ data(h) \in Payloads

\* C9 (step part): a new handle made by the constructor reads the constructor's
\* argument, and no step of any thread, whether it copies or destroys another
\* handle of the same cell, changes what a handle that stays live reads.
DataStep ==
    /\ \A t \in Threads :
          (pc[t] = "ctor_in" /\ pc'[t] = "idle") =>
              \A h \in BagToSet(live') :
                  (Added(h) /\ h.counter_ # NULL) => mem'[h.counter_].data = arg[t]
    /\ \A h \in LiveHandles :
          (BagIn(h, live') /\ h.counter_ # NULL) =>
              mem'[h.counter_].data = mem[h.counter_].data

\* C9: data() of a live handle yields the payload the cell was constructed
\* with, however many other handles of the cell were copied or destroyed
\* meanwhile, and the cell is released only after its last handle is destroyed.
DataSurvivesSiblings == []LiveHandleHasPayload /\ [][DataStep]_vars

\* C9 witness: a handle of a cell holding "s2" has been destroyed and another
\* handle of that cell is live and still reads "s2".
SiblingGoneDataReadable ==
    \E t \in Threads :
        /\ pc[t] = "dtor_owner"
        /\ BagIn(cur[t], live)
        /\ data(cur[t]) = "s2"

\* C10: when the backing allocator supplies no block during the construction
\* of a pooled handle, no usable handle results: no live handle has a null cell
\* reference or refers to a slot that was not allocated.
NoHandleWithoutCell ==
    \A h \in LiveHandles :
        h.counter_ # NULL /\ Constructed(h.counter_)

\* C11: a payload constructor or destructor that runs inside construct or destroy
\* of a pool and starts a construct or destroy on the same pool leaves its thread
\* waiting for the mutex of that pool, which the thread itself holds: from then on
\* the inner operation never gets the lock and the outer call never returns, in
\* every continuation.
Reentered(t) == outer[t] # NoFrame
WaitsForItself(t) ==
    /\ pc[t] \in {"ctor_lock", "dtor_lock"}
    /\ mutex[cur[t].owner_] = t
    /\ outer[t].cur.owner_ = cur[t].owner_
ReentrantStuckStep ==
    \A t \in Threads :
        Reentered(t) =>
            /\ pc'[t] = pc[t]
            /\ cur'[t] = cur[t]
            /\ outer'[t] = outer[t]
            /\ mutex'[cur[t].owner_] = t
ReentrantCallBlocksForever ==
    /\ [](\A t \in Threads : Reentered(t) => WaitsForItself(t))
    /\ [][ReentrantStuckStep]_vars

\* C11 witness: a payload destructor running inside destroy has destroyed the
\* last handle of another cell of the same pool, and that inner destroy waits
\* for the mutex its own thread holds.
ReenteredFromDestructor ==
    \E t \in Threads :
        /\ Reentered(t)
        /\ outer[t].pc = "dtor_in"
        /\ pc[t] = "dtor_lock"
        /\ mutex[cur[t].owner_] = t

\* some live handle references the cell at c
Referenced(c) == \E h \in LiveHandles : h.counter_ = c
\* no handle exists: none is live, none is in a constructor or destructor
NoHandles == live = EmptyBag /\ InFlight = {}
\* the cells of pool p that live handles reference
CellsReferenced(p) ==
    { h.counter_ : h \in { x \in LiveHandles : x.counter_[1] = p } }

\* C12 as stated: once every handle has been destroyed every pool has zero live
\* cells, and in every state in which handles are live the number of live cells
\* of a pool equals the number of distinct cells live handles reference.
LiveCellsMatchLiveHandles ==
    /\ NoHandles => \A p \in PoolAddrs : LiveCells(p) = {}
    /\ live # EmptyBag =>
          \A p \in PoolAddrs :
              Cardinality(LiveCells(p)) = Cardinality(CellsReferenced(p))

\* C12 amended: once every handle has been destroyed every pool has zero live
\* cells; at any time the live cells of a pool are the cells live handles
\* reference together with the cells whose last handle's destructor has
\* observed zero and has not completed destroy yet, so that the two numbers
\* agree whenever no such destructor is under way.
NoCellLeaks ==
    /\ NoHandles => \A c \in Cells : ~Constructed(c)
    /\ \A c \in Cells : Constructed(c) <=> (Referenced(c) \/ Releasers(c) # {})
    /\ (\A t \in Threads : pc[t] \notin {"dtor_lock", "dtor_in"}) =>
          \A p \in PoolAddrs :
              Cardinality(LiveCells(p)) = Cardinality(CellsReferenced(p))

\* C12 witness: cells were allocated from a pool, every handle has been
\* destroyed, and all chunks of the pool's block are back on its free list.
AllHandlesGoneCellsReleased ==
    /\ NoHandles
    /\ \E p \in PoolAddrs :
          /\ blocks[p] # {}
          /\ freeL[p] = { c \in Cells : c[1] = p }

\* the positions of a thread inside a construction, a copy or a destruction
InOperation ==
    {"ctor_lock", "ctor_in", "copy_inc", "dtor_lock", "dtor_in", "dtor_owner"}

\* C13: with payload constructors and destructors that do not use the pool and
\* a fair mutex, every construction, copy and destruction a thread has started
\* completes, and a thread waiting for the lock of a pool gets it.
EveryOperationCompletes ==
    \A t \in Threads :
        /\ (pc[t] \in InOperation) ~> (pc[t] = "idle")
        /\ (pc[t] = "ctor_lock") ~> (pc[t] = "ctor_in")
        /\ (pc[t] = "dtor_lock") ~> (pc[t] = "dtor_in")

\* C13 witness: a thread waits for the lock of a pool while another thread is
\* inside destroy on that pool.
WaitsForLockHeldByRelease ==
    \E t \in Threads, u \in Threads :
        /\ pc[t] \in {"ctor_lock", "dtor_lock"}
        /\ pc[u] = "dtor_in"
        /\ cur[t].owner_ = cur[u].owner_
        /\ mutex[cur[t].owner_] = u

\* C14: copy-constructing an inline handle runs the payload's copy logic exactly
\* once and gives the new handle a payload of its own (every inline handle and
\* every value data() returned is one owner of the pointee, no more and no
\* less), and no operation on inline handles allocates from a pool, releases to
\* a pool or locks one.
EachHolderCountedOnce ==
    \A k \in Objs : useCount[k] = CopiesIn(k, inl) + CopiesIn(k, got)
InlineStep ==
    /\ UNCHANGED <<tlPool, poolRefs, mutex, blocks, freeL, mem, live, pc>>
    /\ \A k \in Objs :
          CopiesIn(k, inl') > CopiesIn(k, inl) =>
              /\ CopiesIn(k, inl') = CopiesIn(k, inl) + 1
              /\ useCount'[k] = useCount[k] + 1
InlineCopyOwnPayloadNoPool ==
    /\ []EachHolderCountedOnce
    /\ [][InlineStep]_vars

\* C14 witness: an inline handle has been copied and its value read: two handles
\* hold the same pointee, a caller holds it too, and no pool exists.
InlineHandleCopied ==
    \E k \in Objs :
        /\ CopiesIn(k, inl) = 2
        /\ CopiesIn(k, got) = 1
        /\ useCount[k] = 3
        /\ \A p \in PoolAddrs : poolRefs[p] = 0

\* the number of live handles whose counter_ is c
HandlesOn(c) ==
    BagCardinality([h \in { x \in LiveHandles : x.counter_ = c } |-> live[h]])
\* a copy construction from a handle of c, or the destruction of one, is under way
InProgressOn(c) ==
    \E t \in Threads :
        \/ pc[t] = "copy_inc" /\ src[t].counter_ = c
        \/ pc[t] \in {"dtor_lock", "dtor_in", "dtor_owner"} /\ cur[t].counter_ = c

\* C15: the use-count of a cell is 1 once the handle that allocated it is
\* constructed (one live handle, no copy made yet), and in every state in which
\* no copy construction or destruction of a handle of the cell is in progress
\* it equals the number of live handles whose counter_ is that cell.
UsesEqualsLiveHandles ==
    \A c \in Cells :
        (Constructed(c) /\ ~InProgressOn(c)) => mem[c].uses = HandlesOn(c)

\* C15 witness: a cell with two live handles and use-count 2, nothing in
\* progress on it, after the thread that constructed it has exited.
CountTwoAfterMakerExit ==
    \E c \in Cells :
        /\ Constructed(c)
        /\ ~InProgressOn(c)
        /\ HandlesOn(c) = 2
        /\ mem[c].uses = 2
        /\ pc[mem[c].maker] = "exited"

\* construct returns to thread t in this step
ConstructReturns(t) == pc[t] = "ctor_in" /\ pc'[t] = "idle"
\* C16: construct never returns a slot that a live cell occupies (the slot it
\* returns held no cell, no live handle referenced it, and no cell other than the new
\* one is touched, so two live cells never share a slot, also while releases
\* from other threads interleave); a slot is on the free list only after destroy
\* has completed on it (no payload in it, no handle on it, no destructor on its
\* way to it); a released slot is handed out again by a later construct.
FreeSlotsAreReleased ==
    \A p \in PoolAddrs : \A c \in freeL[p] :
        /\ c[1] = p /\ c[2] \in blocks[p]
        /\ mem[c].data = NoData
        /\ ~Referenced(c)
        /\ Releasers(c) = {}
ConstructStep ==
    \A t \in Threads :
        ConstructReturns(t) =>
            \E n \in Cells :
                /\ \E h \in HandleValues : Added(h) /\ h.counter_ = n
                /\ ~Constructed(n)
                /\ mem[n].data = NoData
                /\ ~Referenced(n) /\ Releasers(n) = {}
                /\ n[2] \in blocks'[n[1]] /\ n \notin freeL'[n[1]]
                /\ n[1] = cur[t].owner_
                /\ \A c \in Cells \ {n} :
                      /\ mem'[c] = mem[c]
                      /\ Constructed(c) => Constructed(c)'
ConstructNeverReturnsLiveSlot ==
    /\ []FreeSlotsAreReleased
    /\ [][ConstructStep]_vars

\* C16 witness: a destructor has released the cell at c, it is the head of the
\* free list of its pool, and the owning thread is inside construct on that
\* pool: the released slot is the one construct hands out.
ReleasedSlotHandedOutAgain ==
    \E t \in Threads, u \in Threads :
        /\ pc[u] = "dtor_owner"
        /\ cur[u].counter_ \in freeL[cur[u].owner_]
        /\ pc[t] = "ctor_in"
        /\ cur[t].owner_ = cur[u].owner_
        /\ FirstFree(cur[t].owner_) = cur[u].counter_

\* C17: with handles assigned to one another by the implicitly generated copy
\* assignment, the use-count of every cell still equals the number of live
\* handles whose counter_ it is (whenever no copy or destruction is in progress
\* on it), a cell no handle references any more is released or on its way to
\* destroy, and no cell is released while a live handle references it.
AssignmentKeepsUseCounts ==
    /\ \A c \in Cells :
          (Constructed(c) /\ ~InProgressOn(c)) => mem[c].uses = HandlesOn(c)
    /\ \A c \in Cells :
          Constructed(c) => (Referenced(c) \/ Releasers(c) # {})
    /\ \A h \in LiveHandles : Constructed(h.counter_)

\* C18: when the payload constructor throws inside construct, the mutex of the
\* pool is released, no handle comes into being, no cell stays allocated for it
\* (the chunk is back on the free list, every constructed cell has a handle or a
\* destructor on its way to it), and the pool stays usable: its mutex is only
\* ever held by a thread that is inside construct or destroy on it.
ThrowStep ==
    \A t \in Threads :
        (pc[t] = "ctor_in" /\ pc'[t] = "ctor_unwind") =>
            /\ mutex[cur[t].owner_] = t
            /\ mutex'[cur[t].owner_] = NoThread
            /\ live' = live
            /\ mem' = mem
            /\ \A c \in Cells : Constructed(c)' <=> Constructed(c)
            /\ blocks'[cur[t].owner_] # {}
NothingLeftOfFailedConstruction ==
    /\ \A t \in Threads :
          pc[t] = "ctor_unwind" =>
              /\ cur[t].counter_ = NULL
              /\ mutex[cur[t].owner_] # t
    /\ \A p \in PoolAddrs :
          mutex[p] # NoThread => mutex[p] \in InsidePool(p)
    /\ \A c \in Cells : Constructed(c) => (Referenced(c) \/ Releasers(c) # {})
    /\ \A h \in LiveHandles : h.counter_ # NULL /\ Constructed(h.counter_)
FailedConstructionLeavesPoolUsable ==
    /\ []NothingLeftOfFailedConstruction
    /\ [][ThrowStep]_vars

\* C18 witness: the payload constructor of thread t has thrown inside construct
\* on a pool, t is still unwinding, and another thread is inside destroy on the
\* same pool, holding its mutex.
PoolUsedAfterThrow ==
    \E t \in Threads, u \in Threads :
        /\ pc[t] = "ctor_unwind"
        /\ pc[u] = "dtor_in"
        /\ ReleasePool(u) = cur[t].owner_
        /\ mutex[cur[t].owner_] = u
====
